---- MODULE Spec2Model ----
(***************************************************************************)
(* Model of the /snapshot request handler of app.py (Confluence Snapshot). *)
(*                                                                         *)
(* One request is handled at a time, in the order of the code: CORS        *)
(* pre-flight, parameter parsing, validation, the exchange call, the       *)
(* indicator computation and the cleaning of the response.                 *)
(*                                                                         *)
(* Texts are sequences of one-character strings, so that int(text) and the *)
(* formatting of a float are computed and not assumed.  Prices are         *)
(* integers counting thousandths; rounded values count hundredths.         *)
(***************************************************************************)
EXTENDS Integers, Sequences, FiniteSets, TLC

VARIABLES
    pc,        \* position of the handler: idle, preflight, parse, validate, fetch, compute, done
    method,    \* request.method
    args,      \* request.args (query string)
    body,      \* the request body as request.get_json(force, silent) sees it
    pair,      \* local `pair`
    tf,        \* local `tf`
    lookback,  \* local `lookback`
    calls,     \* number of ex.fetch_ohlcv calls made for the current request
    limit,     \* the `limit` argument of the last ex.fetch_ohlcv call
    exch,      \* what the exchange did for the current request
    lib,       \* what the indicator library returned for the current request
    status,    \* HTTP status of the response
    resp,      \* body of the response
    served,    \* number of requests answered so far
    first      \* the first answered request, with what the environment gave and the response

vars == <<pc, method, args, body, pair, tf, lookback, calls, limit, exch, lib,
          status, resp, served, first>>

---------------------------------------------------------------------------
(* Bounds of the model *)

MaxCandles == 2
MaxRequests == 2

(* Program constants *)

DefaultLookback == 14
LimitFactor == 5
MinLimit == 200
ObLowPct == 101
ObHighPct == 103

---------------------------------------------------------------------------
(* Python / JSON values: absent key (None), null, str, int, float (in     *)
(* tenths) and bool.                                                     *)

Absent == [t |-> "absent", n |-> 0, s |-> <<>>]
Null == [t |-> "null", n |-> 0, s |-> <<>>]
VStr(s) == [t |-> "str", n |-> 0, s |-> s]
VInt(n) == [t |-> "int", n |-> n, s |-> <<>>]
VFlt(tenths) == [t |-> "float", n |-> tenths, s |-> <<>>]
VBool(b) == [t |-> "bool", n |-> IF b THEN 1 ELSE 0, s |-> <<>>]
Unset == [t |-> "unset", n |-> 0, s |-> <<>>]

(* Python truthiness, as used by `or` and `not` *)
Truthy(v) ==
    CASE v.t = "str" -> Len(v.s) > 0
      [] v.t \in {"int", "float", "bool"} -> v.n # 0
      [] OTHER -> FALSE

(* a or b *)
PyOr(a, b) == IF Truthy(a) THEN a ELSE b

Digits == <<"0", "1", "2", "3", "4", "5", "6", "7", "8", "9">>

IsDigit(c) == \E i \in 1..10 : Digits[i] = c

DigitVal(c) == (CHOOSE i \in 1..10 : Digits[i] = c) - 1

RECURSIVE LStrip(_)
LStrip(s) == IF s # <<>> /\ Head(s) = " " THEN LStrip(Tail(s)) ELSE s

RECURSIVE RStrip(_)
RStrip(s) ==
    IF s # <<>> /\ s[Len(s)] = " " THEN RStrip(SubSeq(s, 1, Len(s) - 1)) ELSE s

(* digits, single underscores allowed between digits *)
DigitsOk(s) ==
    /\ s # <<>>
    /\ IsDigit(s[1]) /\ IsDigit(s[Len(s)])
    /\ \A i \in 1..Len(s) : IsDigit(s[i]) \/ s[i] = "_"
    /\ \A i \in 1..(Len(s) - 1) : ~(s[i] = "_" /\ s[i + 1] = "_")

RECURSIVE DigitsValue(_, _)
DigitsValue(s, acc) ==
    IF s = <<>> THEN acc
    ELSE IF Head(s) = "_" THEN DigitsValue(Tail(s), acc)
    ELSE DigitsValue(Tail(s), 10 * acc + DigitVal(Head(s)))

(* int(text): surrounding blanks stripped, an optional sign, then digits;  *)
(* anything else raises ValueError                                         *)
ParseInt(text) ==
    LET s == RStrip(LStrip(text))
        signed == s # <<>> /\ Head(s) \in {"-", "+"}
        d == IF signed THEN Tail(s) ELSE s
    IN  IF DigitsOk(d)
        THEN [ok |-> TRUE,
              n |-> IF signed /\ Head(s) = "-" THEN 0 - DigitsValue(d, 0)
                    ELSE DigitsValue(d, 0)]
        ELSE [ok |-> FALSE, n |-> 0]

(* int(float): truncation toward zero *)
Trunc(tenths) == IF tenths >= 0 THEN tenths \div 10 ELSE 0 - ((0 - tenths) \div 10)

(* int(v) for the values a query string or a JSON body can hold *)
PyInt(v) ==
    CASE v.t = "str" -> ParseInt(v.s)
      [] v.t = "int" -> [ok |-> TRUE, n |-> v.n]
      [] v.t = "bool" -> [ok |-> TRUE, n |-> v.n]
      [] v.t = "float" -> [ok |-> TRUE, n |-> Trunc(v.n)]
      [] OTHER -> [ok |-> FALSE, n |-> 0]

(* d.get(key, default) *)
GetOr(v, default) == IF v.t = "absent" THEN default ELSE v

---------------------------------------------------------------------------
(* Requests *)

NoArgs == [pair |-> Absent, interval |-> Absent, timeframe |-> Absent, lookback |-> Absent]

(* request.get_json(force=True, silent=True): None for a missing or        *)
(* malformed body, else the decoded JSON value                            *)
NoBody == [kind |-> "none", obj |-> NoArgs]
FalsyBody == [kind |-> "falsy", obj |-> NoArgs]
OtherBody == [kind |-> "other", obj |-> NoArgs]
ObjBody(o) == [kind |-> "object", obj |-> o]

(* Lines 64-72: the two parsing branches.  The result is either the three *)
(* locals or the exception that leaves the view function.                 *)
Raised == [ok |-> FALSE, pair |-> Unset, tf |-> Unset, lookback |-> Unset]

ParseGet(a) ==
    LET lb == PyInt(GetOr(a.lookback, VInt(DefaultLookback)))
    IN  IF lb.ok
        THEN [ok |-> TRUE, pair |-> a.pair,
              tf |-> PyOr(a.interval, a.timeframe), lookback |-> VInt(lb.n)]
        ELSE Raised

(* data = get_json(...) or {} *)
BodyData(b) == IF b.kind = "object" THEN b.obj ELSE NoArgs

ParsePostIntervalOnly(b) ==
    IF b.kind = "other" THEN Raised
    ELSE
        LET data == BodyData(b)
            lb == PyInt(GetOr(data.lookback, VInt(DefaultLookback)))
        IN  IF lb.ok
            THEN [ok |-> TRUE, pair |-> data.pair,
                  tf |-> data.interval, lookback |-> VInt(lb.n)]
            ELSE Raised

ParsePost(b) ==
    IF b.kind = "other" THEN Raised    \* truthy non-dict: data.get raises AttributeError
    ELSE
        LET data == BodyData(b)
            lb == PyInt(GetOr(data.lookback, VInt(DefaultLookback)))
        IN  IF lb.ok
            THEN [ok |-> TRUE, pair |-> data.pair,
                  tf |-> PyOr(data.interval, data.timeframe), lookback |-> VInt(lb.n)]
            ELSE Raised

(* Line 74 *)
Invalid(p, t) == ~Truthy(p) \/ ~Truthy(t)

(* Line 79 *)
Max(a, b) == IF a >= b THEN a ELSE b

FetchLimitNoFloor(lb) == lb * LimitFactor

FetchLimit(lb) == Max(lb * LimitFactor, MinLimit)


---------------------------------------------------------------------------
(* Numbers.  A float is finite (v counts thousandths), NaN or infinite.    *)

Fin(v) == [k |-> "fin", v |-> v]
NaN == [k |-> "nan", v |-> 0]
PosInf == [k |-> "inf", v |-> 0]

(* n / d rounded to the nearest integer, ties to the even one (d > 0) *)
RoundDiv(n, d) ==
    LET q == n \div d
        r == n - q * d
    IN  IF 2 * r < d THEN q
        ELSE IF 2 * r > d THEN q + 1
        ELSE IF q % 2 = 0 THEN q ELSE q + 1

(* round(x, 2) of a value in thousandths, in hundredths *)
Round2(v) == RoundDiv(v, 10)

(* round(x * 1.01, 2) and round(x * 1.03, 2), in hundredths *)
RoundPct(v, pct) == RoundDiv(v * pct, 1000)

RECURSIVE FormatNat(_)
FormatNat(n) ==
    IF n < 10 THEN <<Digits[n + 1]>>
    ELSE FormatNat(n \div 10) \o <<Digits[(n % 10) + 1]>>

(* str(n) of an int *)
FormatInt(n) == IF n < 0 THEN <<"-">> \o FormatNat(0 - n) ELSE FormatNat(n)

(* str(x) of a float holding `cents` hundredths: shortest decimal text,   *)
(* always with a fractional digit                                          *)
FormatFloat(cents) ==
    LET a == IF cents < 0 THEN 0 - cents ELSE cents
        whole == a \div 100
        frac == a % 100
        fracText == IF frac % 10 = 0 THEN <<Digits[(frac \div 10) + 1]>>
                    ELSE <<Digits[(frac \div 10) + 1], Digits[(frac % 10) + 1]>>
    IN  (IF cents < 0 THEN <<"-">> ELSE <<>>) \o FormatNat(whole) \o <<".">> \o fracText

(* JSON values of a response *)
JNum(cents) == [k |-> "num", v |-> cents, s |-> <<>>]
JNull == [k |-> "null", v |-> 0, s |-> <<>>]
JStr(s) == [k |-> "str", v |-> 0, s |-> s]
JNaN == [k |-> "nan", v |-> 0, s |-> <<>>]
JInf == [k |-> "inf", v |-> 0, s |-> <<>>]

(* round(float(x), 2) *)
RoundFloat(x) ==
    CASE x.k = "fin" -> JNum(Round2(x.v))
      [] x.k = "nan" -> JNaN
      [] OTHER -> JInf

(* Lines 107-112: None for a float that is not finite *)
Clean(v) == IF v.k \in {"nan", "inf"} THEN JNull ELSE v

---------------------------------------------------------------------------
(* Candles and indicators *)

RECURSIVE SeqMax(_)
SeqMax(s) ==
    IF Len(s) = 1 THEN s[1]
    ELSE LET m == SeqMax(Tail(s)) IN IF s[1] >= m THEN s[1] ELSE m

RECURSIVE SeqMin(_)
SeqMin(s) ==
    IF Len(s) = 1 THEN s[1]
    ELSE LET m == SeqMin(Tail(s)) IN IF s[1] <= m THEN s[1] ELSE m

Highs(cs) == [i \in 1..Len(cs) |-> cs[i].h]
Lows(cs) == [i \in 1..Len(cs) |-> cs[i].l]

SwingHighLast(cs) == cs[Len(cs)].h

SwingLowMax(cs) == SeqMax(Lows(cs))

(* Line 89 and line 90 *)
SwingHigh(cs) == SeqMax(Highs(cs))
SwingLow(cs) == SeqMin(Lows(cs))

OrderBlockFromRounded(swingLow) ==
    FormatFloat(RoundPct(10 * Round2(swingLow), ObLowPct)) \o <<"-">>
        \o FormatFloat(RoundPct(10 * Round2(swingLow), ObHighPct))

(* Line 94 and line 103 *)
OrderBlock(swingLow) ==
    FormatFloat(RoundPct(swingLow, ObLowPct)) \o <<"-">>
        \o FormatFloat(RoundPct(swingLow, ObHighPct))

(* Lines 96-104 *)
Raw(cs, rsiVal, atrVal) ==
    [price |-> RoundFloat(Fin(cs[Len(cs)].c)),
     rsi |-> RoundFloat(rsiVal),
     atr |-> RoundFloat(atrVal),
     swingHigh |-> RoundFloat(Fin(SwingHigh(cs))),
     swingLow |-> RoundFloat(Fin(SwingLow(cs))),
     bos |-> RoundFloat(Fin(SwingHigh(cs))),
     orderBlock |-> JStr(OrderBlock(SwingLow(cs)))]

CleanAll(raw) == [key \in DOMAIN raw |-> Clean(raw[key])]

(* Responses *)
NoObj == [none |-> JNull]
NoResp == [kind |-> "none", obj |-> NoObj]
EmptyBody == [kind |-> "empty", obj |-> NoObj]
HtmlBody == [kind |-> "html", obj |-> NoObj]
JsonBody(o) == [kind |-> "json", obj |-> o]

ErrorBodyWithFields(msg) == JsonBody([error |-> JStr(msg), price |-> JNull])

ErrorBodyCounted(msg) == JsonBody([error |-> JStr(msg \o FormatNat(served))])

(* Line 81 *)
ErrorBody(msg) == JsonBody([error |-> JStr(msg)])

(* Lines 83-114: an empty frame has no last row, so .iloc[-1] raises *)
Snapshot(cs, rsiVal, atrVal) ==
    IF Len(cs) = 0
    THEN [status |-> 500, resp |-> HtmlBody]
    ELSE [status |-> 200, resp |-> JsonBody(CleanAll(Raw(cs, rsiVal, atrVal)))]

(* What the exchange does with one call *)
NoAnswer == [kind |-> "none", msg |-> <<>>, candles |-> <<>>]
Raises(msg) == [kind |-> "raise", msg |-> msg, candles |-> <<>>]
Returns(cs) == [kind |-> "ok", msg |-> <<>>, candles |-> cs]

NoLib == [rsi |-> NaN, atr |-> NaN, used |-> FALSE]

---------------------------------------------------------------------------
(* Inputs *)

BTC == <<"B", "T", "C">>
OneHour == <<"1", "h">>
FourHours == <<"4", "h">>

LookbackTexts ==
    { <<"2">>, <<"4", "1">>, <<"-", "3">>, <<"0">>, <<"a", "b", "c">>, <<>>,
      <<"1", ".", "5">>, <<" ", "2", " ">>, <<"1", "_", "0">> }

QueryArgs ==
    [pair : {Absent, VStr(<<>>), VStr(BTC)},
     interval : {Absent, VStr(<<>>), VStr(OneHour)},
     timeframe : {Absent, VStr(<<>>), VStr(FourHours)},
     lookback : {Absent} \cup {VStr(x) : x \in LookbackTexts}]

JsonObjects ==
    [pair : {Absent, VStr(<<>>), VStr(BTC), VInt(0), VInt(7)},
     interval : {Absent, VStr(<<>>), VStr(OneHour)},
     timeframe : {Absent, VStr(<<>>), VStr(FourHours)},
     lookback : {Absent, Null, VBool(TRUE), VInt(2), VInt(41), VInt(-3),
                 VFlt(15), VFlt(-15)} \cup {VStr(x) : x \in LookbackTexts}]

Request(m, a, b) == [method |-> m, args |-> a, body |-> b]

Requests ==
    {Request("GET", a, NoBody) : a \in QueryArgs}
      \cup {Request("POST", NoArgs, ObjBody(o)) : o \in JsonObjects}
      \cup {Request("POST", NoArgs, b) : b \in {NoBody, FalsyBody, OtherBody}}
      \cup {Request("OPTIONS", a, b) : a \in QueryArgs, b \in {NoBody, OtherBody}}

GoodArgs(lb) ==
    [pair |-> VStr(BTC), interval |-> VStr(OneHour), timeframe |-> Absent, lookback |-> lb]

FewRequests ==
    { Request("GET", GoodArgs(VStr(<<"2">>)), NoBody),
      Request("POST", NoArgs, ObjBody(GoodArgs(Absent))) }

HistoryRequests ==
    FewRequests \cup
    { Request("GET", NoArgs, NoBody),
      Request("GET", GoodArgs(VStr(<<"a", "b", "c">>)), NoBody),
      Request("POST", NoArgs, OtherBody),
      Request("OPTIONS", NoArgs, NoBody) }

(* Prices in thousandths.  Every value whose rounding is a tie is a        *)
(* multiple of 1/8, which a binary float holds exactly.                    *)
Prices == {-250, 125, 1375}

Candles == [h : Prices, l : Prices, c : Prices]

FewCandles ==
    { [h |-> 1375, l |-> 125, c |-> 125], [h |-> 125, l |-> -250, c |-> 125] }

SeqsUpTo(S, n) == UNION {[1..k -> S] : k \in 0..n}

Timeout == <<"t", "i", "m", "e", "o", "u", "t">>

Answers == {Raises(Timeout)} \cup {Returns(cs) : cs \in SeqsUpTo(Candles, MaxCandles)}

FewAnswers == {Raises(Timeout)} \cup {Returns(cs) : cs \in SeqsUpTo(FewCandles, MaxCandles)}

(* ta.rsi and ta.atr are library calls: the last value of the series each  *)
(* returns is an input, a finite number, NaN or an infinity.               *)
Lib(r, a) == [rsi |-> r, atr |-> a, used |-> TRUE]

LibResults == {Lib(r, a) : r \in {NaN, Fin(58234)}, a \in {NaN, PosInf, Fin(643770)}}

FewLibResults == {Lib(Fin(58234), Fin(643770)), Lib(NaN, PosInf)}

---------------------------------------------------------------------------
(* The handler *)

NoFirst == [set |-> FALSE, method |-> "", args |-> NoArgs, body |-> NoBody,
            exch |-> NoAnswer, lib |-> NoLib, status |-> 0, resp |-> NoResp]

Init ==
    /\ pc = "idle"
    /\ method = ""
    /\ args = NoArgs
    /\ body = NoBody
    /\ pair = Unset
    /\ tf = Unset
    /\ lookback = Unset
    /\ calls = 0
    /\ limit = 0
    /\ exch = NoAnswer
    /\ lib = NoLib
    /\ status = 0
    /\ resp = NoResp
    /\ served = 0
    /\ first = NoFirst

IsPreflightHead(m) == m = "HEAD"

(* Line 60 *)
IsPreflight(m) == m = "OPTIONS"

(* A response leaves the view function *)
Respond(code, b) ==
    /\ status' = code
    /\ resp' = b
    /\ pc' = "done"

(* Flask routes a request to snapshot() *)
Receive(Reqs) ==
    /\ pc = "idle"
    /\ served < MaxRequests
    /\ \E r \in Reqs :
        /\ method' = r.method
        /\ args' = r.args
        /\ body' = r.body
    /\ pc' = "preflight"
    /\ UNCHANGED <<pair, tf, lookback, calls, limit, exch, lib, status, resp, served, first>>

(* Lines 59-61 *)
Preflight ==
    /\ pc = "preflight"
    /\ IF IsPreflight(method)
       THEN Respond(204, EmptyBody)
       ELSE pc' = "parse" /\ UNCHANGED <<status, resp>>
    /\ UNCHANGED <<method, args, body, pair, tf, lookback, calls, limit, exch, lib, served, first>>

(* Lines 63-72; an exception leaving the view function is answered 500 *)
Parse ==
    /\ pc = "parse"
    /\ LET p == IF method = "GET" THEN ParseGet(args) ELSE ParsePost(body)
       IN  IF p.ok
           THEN /\ pair' = p.pair
                /\ tf' = p.tf
                /\ lookback' = p.lookback
                /\ pc' = "validate"
                /\ UNCHANGED <<status, resp>>
           ELSE /\ Respond(500, HtmlBody)
                /\ UNCHANGED <<pair, tf, lookback>>
    /\ UNCHANGED <<method, args, body, calls, limit, exch, lib, served, first>>

(* Lines 74-75 *)
Validate ==
    /\ pc = "validate"
    /\ IF Invalid(pair, tf)
       THEN Respond(400, HtmlBody)
       ELSE pc' = "fetch" /\ UNCHANGED <<status, resp>>
    /\ UNCHANGED <<method, args, body, pair, tf, lookback, calls, limit, exch, lib, served, first>>

(* Lines 77-81 *)
Fetch(Ans) ==
    /\ pc = "fetch"
    /\ calls' = calls + 1
    /\ limit' = FetchLimit(lookback.n)
    /\ \E a \in Ans :
        /\ exch' = a
        /\ IF a.kind = "raise"
           THEN Respond(400, ErrorBody(a.msg))
           ELSE pc' = "compute" /\ UNCHANGED <<status, resp>>
    /\ UNCHANGED <<method, args, body, pair, tf, lookback, lib, served, first>>

(* Lines 83-114 *)
Compute(Libs) ==
    /\ pc = "compute"
    /\ \E x \in Libs :
        /\ lib' = x
        /\ LET out == Snapshot(exch.candles, x.rsi, x.atr)
           IN  Respond(out.status, out.resp)
    /\ UNCHANGED <<method, args, body, pair, tf, lookback, calls, limit, exch, served, first>>

(* The response is sent; the locals of the call are gone *)
Finish(remember) ==
    /\ pc = "done"
    /\ pc' = "idle"
    /\ served' = served + 1
    /\ first' = IF remember /\ ~first.set
                THEN [set |-> TRUE, method |-> method, args |-> args, body |-> body,
                      exch |-> exch, lib |-> lib, status |-> status, resp |-> resp]
                ELSE first
    /\ method' = ""
    /\ args' = NoArgs
    /\ body' = NoBody
    /\ pair' = Unset
    /\ tf' = Unset
    /\ lookback' = Unset
    /\ calls' = 0
    /\ limit' = 0
    /\ exch' = NoAnswer
    /\ lib' = NoLib
    /\ status' = 0
    /\ resp' = NoResp

Next ==
    \/ Receive(Requests)
    \/ Preflight
    \/ Parse
    \/ Validate
    \/ Fetch(FewAnswers)
    \/ Compute(LibResults)
    \/ Finish(FALSE)

Spec == Init /\ [][Next]_vars

(* Few requests, every candle list *)
NextCandles ==
    \/ Receive(FewRequests)
    \/ Preflight
    \/ Parse
    \/ Validate
    \/ Fetch(Answers)
    \/ Compute(FewLibResults)
    \/ Finish(FALSE)

SpecCandles == Init /\ [][NextCandles]_vars

(* Requests one after another, the first one remembered *)
NextHistory ==
    \/ Receive(HistoryRequests)
    \/ Preflight
    \/ Parse
    \/ Validate
    \/ Fetch(FewAnswers)
    \/ Compute(FewLibResults)
    \/ Finish(TRUE)

SpecHistory == Init /\ [][NextHistory]_vars

---------------------------------------------------------------------------
(* Vocabulary of the properties *)

Abs(x) == IF x < 0 THEN 0 - x ELSE x

(* a parameter that is missing or empty *)
ParamMissing(v) == v.t = "absent" \/ (v.t = "str" /\ v.s = <<>>)

(* the parameters the current request carries *)
Params == IF method = "GET" THEN args ELSE BodyData(body)

MissingRequired ==
    \/ ParamMissing(Params.pair)
    \/ ParamMissing(Params.interval) /\ ParamMissing(Params.timeframe)

(* the request passed parsing and validation *)
Validated == lookback.t = "int" /\ Truthy(pair) /\ Truthy(tf)

AfterParse ==
    /\ method \in {"GET", "POST"}
    /\ pc \in {"validate", "fetch", "compute", "done"}

(* what parsing left behind *)
CurrentParse ==
    IF lookback.t = "unset" THEN Raised
    ELSE [ok |-> TRUE, pair |-> pair, tf |-> tf, lookback |-> lookback]

Answered == pc = "done" /\ status = 200

NumericKeys == {"price", "rsi", "atr", "swingHigh", "swingLow", "bos"}
SnapshotKeys == NumericKeys \cup {"orderBlock"}

(* c hundredths is v thousandths rounded to two decimals *)
NearestCent(c, v) == Abs(10 * c - v) <= 5

IsMaxHigh(m) ==
    /\ \E i \in 1..Len(exch.candles) : exch.candles[i].h = m
    /\ \A i \in 1..Len(exch.candles) : exch.candles[i].h <= m

IsMinLow(m) ==
    /\ \E i \in 1..Len(exch.candles) : exch.candles[i].l = m
    /\ \A i \in 1..Len(exch.candles) : exch.candles[i].l >= m

WellFormed ==
    \A i \in 1..Len(exch.candles) :
        /\ exch.candles[i].l <= exch.candles[i].c
        /\ exch.candles[i].c <= exch.candles[i].h

(* the value, in hundredths, of a decimal text with one or two fractional digits *)
DecimalCents(text) ==
    LET neg == text # <<>> /\ Head(text) = "-"
        u == IF neg THEN Tail(text) ELSE text
        dots == {i \in 1..Len(u) : u[i] = "."}
    IN  IF Cardinality(dots) # 1 THEN [ok |-> FALSE, v |-> 0]
        ELSE LET d == CHOOSE i \in dots : TRUE
                 w == SubSeq(u, 1, d - 1)
                 f == SubSeq(u, d + 1, Len(u))
             IN  IF /\ w # <<>>
                    /\ \A i \in 1..Len(w) : IsDigit(w[i])
                    /\ Len(f) \in {1, 2}
                    /\ \A i \in 1..Len(f) : IsDigit(f[i])
                 THEN LET a == 100 * DigitsValue(w, 0)
                                 + (IF Len(f) = 1 THEN 10 * DigitVal(f[1])
                                    ELSE 10 * DigitVal(f[1]) + DigitVal(f[2]))
                      IN  [ok |-> TRUE, v |-> IF neg THEN 0 - a ELSE a]
                 ELSE [ok |-> FALSE, v |-> 0]

---------------------------------------------------------------------------
(* C1: every GET or POST request whose pair is missing or empty, or whose  *)
(* interval and timeframe are both missing or empty, is answered 400       *)
(* whatever lookback holds, and the exchange is not called for it.         *)
C1_MissingParamAnswered400 ==
    (pc = "done" /\ method \in {"GET", "POST"} /\ MissingRequired)
        => (status = 400 /\ calls = 0)

(* C2: a validated request calls the exchange exactly once; when the call  *)
(* raises, the answer is 400 with a JSON object whose only key is error,   *)
(* there is no second call and no indicator is computed.                   *)
C2_OneCallErrorOnly ==
    /\ calls <= 1
    /\ (pc \in {"compute", "done"} /\ Validated) => calls = 1
    /\ (pc = "done" /\ exch.kind = "raise") =>
         /\ status = 400
         /\ resp.kind = "json"
         /\ DOMAIN resp.obj = {"error"}
         /\ resp.obj.error = JStr(exch.msg)
         /\ calls = 1
         /\ ~lib.used

C2_Witness == pc = "done" /\ Validated /\ exch.kind = "raise" /\ method = "POST"

(* C3: whenever the exchange call returns, the answer is a JSON object     *)
(* with exactly the seven keys, each numeric field a finite number or      *)
(* null, also for an empty or short candle list.                           *)
C3_AlwaysValidSnapshot ==
    (pc = "done" /\ exch.kind = "ok") =>
        /\ status = 200
        /\ resp.kind = "json"
        /\ DOMAIN resp.obj = SnapshotKeys
        /\ \A key \in NumericKeys : resp.obj[key].k \in {"num", "null"}

(* C8: an OPTIONS request is answered 204 with an empty body before any    *)
(* parameter is parsed, whatever the parameters are, and the exchange is   *)
(* not called.                                                             *)
C8_PreflightFirst ==
    /\ method = "OPTIONS" => pc \in {"preflight", "done"}
    /\ (pc = "done" /\ method = "OPTIONS") =>
         /\ status = 204
         /\ resp = EmptyBody
         /\ pair = Unset /\ tf = Unset /\ lookback = Unset
         /\ calls = 0
         /\ exch = NoAnswer

C8_Witness ==
    /\ pc = "done" /\ method = "OPTIONS"
    /\ args.pair = Absent
    /\ args.lookback = VStr(<<"a", "b", "c">>)
    /\ body = OtherBody

(* C9: for a validated request with integer lookback L the number of       *)
(* candles asked of the exchange is the larger of 5 * L and 200.           *)
C9_LimitIsMax ==
    calls = 1 =>
        /\ limit >= 200
        /\ limit >= 5 * lookback.n
        /\ limit = 200 \/ limit = 5 * lookback.n

C9_Witness == calls = 1 /\ lookback.n = 41 /\ limit = 205

---------------------------------------------------------------------------
(* How a query string carries a value: a text as itself, a number as its   *)
(* decimal text.                                                           *)

FormatTenths(n) ==
    (IF n < 0 THEN <<"-">> ELSE <<>>) \o FormatNat(Abs(n) \div 10)
        \o <<".", Digits[(Abs(n) % 10) + 1]>>

ToQueryValue(v) ==
    CASE v.t = "int" -> VStr(FormatInt(v.n))
      [] v.t = "float" -> VStr(FormatTenths(v.n))
      [] OTHER -> v

ToQuery(o) ==
    [pair |-> ToQueryValue(o.pair), interval |-> ToQueryValue(o.interval),
     timeframe |-> ToQueryValue(o.timeframe), lookback |-> ToQueryValue(o.lookback)]

Carried(v) == v.t \in {"absent", "str", "int", "float"}

TextOrAbsent(v) == v.t \in {"absent", "str"}

(* two parsing results that stand for the same normalized request *)
SameNorm(p, q) ==
    /\ p.ok = q.ok
    /\ p.ok =>
        /\ p.lookback = q.lookback
        /\ ToQueryValue(p.pair) = ToQueryValue(q.pair)
        /\ ToQueryValue(p.tf) = ToQueryValue(q.tf)
        /\ Invalid(p.pair, p.tf) = Invalid(q.pair, q.tf)

(* C4, as stated: for any values of pair, interval, timeframe and          *)
(* lookback, the GET carrying them in the query string and the POST        *)
(* carrying them in the JSON body are normalized alike.                    *)
C4_AnyValuesEquivalent ==
    /\ (AfterParse /\ method = "GET") => SameNorm(ParsePost(ObjBody(args)), CurrentParse)
    /\ (AfterParse /\ method = "POST" /\ body.kind # "other"
          /\ \A key \in DOMAIN NoArgs : Carried(BodyData(body)[key]))
         => SameNorm(ParseGet(ToQuery(BodyData(body))), CurrentParse)

(* C4, amended: for text values of pair, interval and timeframe and a      *)
(* lookback that is absent, a text or a JSON integer, GET and POST are     *)
(* normalized to the same (pair, timeframe, lookback): timeframe is        *)
(* interval if non-empty and else timeframe, lookback is 14 when absent,   *)
(* and both fail alike when lookback is not the text of an integer.        *)
C4_TextValuesEquivalent ==
    LET o == Params
        inDomain == /\ TextOrAbsent(o.pair) /\ TextOrAbsent(o.interval)
                    /\ TextOrAbsent(o.timeframe)
                    /\ o.lookback.t \in {"absent", "str", "int"}
        twin == IF method = "GET" THEN ParsePost(ObjBody(args))
                ELSE ParseGet(ToQuery(o))
    IN  (AfterParse /\ (method = "POST" => body.kind # "other") /\ inDomain) =>
            /\ twin = CurrentParse
            /\ CurrentParse.ok =>
                /\ pair = o.pair
                /\ tf = (IF ParamMissing(o.interval) THEN o.timeframe ELSE o.interval)
                /\ o.lookback.t = "absent" => lookback.n = 14
                /\ o.lookback.t = "int" => lookback.n = o.lookback.n

C4_Witness ==
    /\ pc = "validate" /\ method = "POST"
    /\ body.obj.interval = VStr(<<>>)
    /\ body.obj.lookback = VInt(41)
    /\ tf = VStr(FourHours)
    /\ lookback = VInt(41)

====
